---- MODULE Spec2Model ----
(***************************************************************************)
(* A model of boxes.py: the conversion of a table of rooms, shelves,       *)
(* doors, windows and constants into an OpenSCAD layout.                   *)
(*                                                                         *)
(* One run of make_scad_layout is one behaviour: read_layout,              *)
(* generate_tree, adjust_dimensions, the assignment of the root position,  *)
(* the recursive walk position_dependents (one loop iteration per step,    *)
(* with an explicit call stack) and the writing of the output.             *)
(*                                                                         *)
(* Python values:                                                          *)
(*   - floats are integers;                                                *)
(*   - a value that is either a number or a str (a CSV cell that the code  *)
(*     does not convert) is a record [str, n]: str says it is a Python     *)
(*     str, n is the number (the number its text spells);                  *)
(*   - a CSV cell that may be empty is <<>> (empty) or <<n>> (text of n);  *)
(*   - the alignment string is the set of the tokens it contains;          *)
(*   - an object is a record with the union of the attributes of the       *)
(*     classes; cls names the class, has_position tells whether the        *)
(*     attribute position exists (a Hole has none until one is assigned).  *)
(***************************************************************************)
EXTENDS Integers, Sequences, FiniteSets, TLC

VARIABLES input_file_name,  \* the file make_scad_layout is called on
          rows,        \* the rows read from the input file, in file order
          pc,          \* the statement of make_scad_layout that runs next, or the exception raised
          boxes,       \* the dict name -> object
          order,       \* the insertion order of the keys of boxes
          dependents,  \* the dict anchor name -> list of dependent names
          first_box,   \* <<>> for None, <<name>> for the root object
          stack,       \* the frames of position_dependents, innermost first
          out,         \* the statements written to the output file
          log          \* history: what the walk did, in order

vars == <<input_file_name, rows, pc, boxes, order, dependents, first_box, stack, out, log>>

----------------------------------------------------------------------------
(* Bounds of the model *)

NumRows == 3          \* rows of the input in the topology runs
RecursionLimit == 7   \* frames of position_dependents the interpreter allows
MaxOffset == 1        \* offset cells are "", "0", "5", .. up to 5 * MaxOffset

----------------------------------------------------------------------------
(* Python values *)

PyNum(n) == [str |-> FALSE, n |-> n]
PyStr(n) == [str |-> TRUE, n |-> n]

\* d[k] = v on a dict
DictSet(d, k, v) == [x \in DOMAIN d \cup {k} |-> IF x = k THEN v ELSE d[x]]

NoObjects == [x \in {} |-> 0]

----------------------------------------------------------------------------
(* The record model *)

\* the thickness a Hole is built with
HOLE_THICKNESS == 40

\* Box.__init__
Box(data) ==
  [cls |-> "Box", box_type |-> data.type, name |-> data.name,
   dimensions |-> <<data.width, data.depth, data.height[1]>>,
   has_position |-> TRUE, position |-> <<0, 0, 0>>,
   adjacent |-> data.adjacent, direction |-> data.direction,
   alignment |-> data.alignment,
   offset |-> IF data.offset = <<>> THEN PyNum(0) ELSE PyStr(data.offset[1]),
   height |-> 0, holes |-> <<>>, value |-> PyNum(0)]

\* cell_as_float
cell_as_float(cell) == IF cell = <<>> THEN 0 ELSE cell[1]

\* Hole.__init__
Hole(data) ==
  [cls |-> "Hole", box_type |-> data.type, name |-> data.name,
   dimensions |-> <<data.width, data.depth, HOLE_THICKNESS>>,
   has_position |-> FALSE, position |-> <<0, 0, 0>>,
   adjacent |-> data.adjacent, direction |-> data.direction,
   alignment |-> {},
   offset |-> PyNum(cell_as_float(data.offset)),
   height |-> cell_as_float(data.height), holes |-> <<>>, value |-> PyNum(0)]

\* Constant.__init__ on a row of the file: value is the text of the width cell
Constant(data) ==
  [cls |-> "Constant", box_type |-> data.type, name |-> data.name,
   dimensions |-> <<0, 0, 0>>,
   has_position |-> FALSE, position |-> <<0, 0, 0>>,
   adjacent |-> data.adjacent, direction |-> data.direction,
   alignment |-> {}, offset |-> PyNum(0),
   height |-> 0, holes |-> <<>>, value |-> PyStr(data.width)]

\* Constant.__init__ on a default: value is the number of DEFAULT_CONSTANTS
DefaultConstant(name, n) ==
  [cls |-> "Constant", box_type |-> "constant", name |-> name,
   dimensions |-> <<0, 0, 0>>,
   has_position |-> FALSE, position |-> <<0, 0, 0>>,
   adjacent |-> "", direction |-> "",
   alignment |-> {}, offset |-> PyNum(0),
   height |-> 0, holes |-> <<>>, value |-> PyNum(n)]

\* names_for_makers / makers. The rows of the model are room, shelf, door and
\* constant rows; type rows and custom rows are not read by any later step.
BOX_TYPES == {"room", "shelf", "shelves", "box"}
HOLE_TYPES == {"door", "window"}

makers(data) ==
  IF data.type \in BOX_TYPES THEN Box(data)
  ELSE IF data.type \in HOLE_TYPES THEN Hole(data)
  ELSE Constant(data)

\* read_layout: the dict comprehension over the rows
RECURSIVE read_rows(_, _)
read_rows(rs, acc) ==
  IF rs = <<>> THEN acc
  ELSE LET row == Head(rs)
       IN read_rows(Tail(rs),
            [boxes |-> DictSet(acc.boxes, row.name, makers(row)),
             order |-> IF row.name \in DOMAIN acc.boxes THEN acc.order
                       ELSE Append(acc.order, row.name)])

read_layout(rs) == read_rows(rs, [boxes |-> NoObjects, order |-> <<>>])

----------------------------------------------------------------------------
(* generate_tree *)

\* generate_tree with the first dependent of an anchor filed twice
tree_step_double_first(acc, box) ==
  IF box.cls \notin {"Box", "Hole"} THEN acc
  ELSE IF box.adjacent = "start"
  THEN [dependents |-> DictSet(acc.dependents, "start", <<box.name>>),
        first_box |-> <<box.name>>]
  ELSE [dependents |->
          DictSet(acc.dependents, box.adjacent,
                  Append(IF box.adjacent \in DOMAIN acc.dependents
                         THEN acc.dependents[box.adjacent] ELSE <<box.name>>,
                         box.name)),
        first_box |-> acc.first_box]

\* generate_tree with the append left in the else branch: the first dependent of
\* an anchor is not filed
tree_step_drop_unseen(acc, box) ==
  IF box.cls \notin {"Box", "Hole"} THEN acc
  ELSE IF box.adjacent = "start"
  THEN [dependents |-> DictSet(acc.dependents, "start", <<box.name>>),
        first_box |-> <<box.name>>]
  ELSE [dependents |->
          DictSet(acc.dependents, box.adjacent,
                  IF box.adjacent \in DOMAIN acc.dependents
                  THEN Append(acc.dependents[box.adjacent], box.name) ELSE <<>>),
        first_box |-> acc.first_box]

\* generate_tree appending the anchor's name to the list, not the record's
tree_step_file_anchor(acc, box) ==
  IF box.cls \notin {"Box", "Hole"} THEN acc
  ELSE IF box.adjacent = "start"
  THEN [dependents |-> DictSet(acc.dependents, "start", <<box.name>>),
        first_box |-> <<box.name>>]
  ELSE [dependents |->
          DictSet(acc.dependents, box.adjacent,
                  Append(IF box.adjacent \in DOMAIN acc.dependents
                         THEN acc.dependents[box.adjacent] ELSE <<>>,
                         box.adjacent)),
        first_box |-> acc.first_box]

\* the body of the loop of generate_tree for one object
tree_step(acc, box) ==
  IF box.cls \notin {"Box", "Hole"} THEN acc
  ELSE IF box.adjacent = "start"
  THEN [dependents |-> DictSet(acc.dependents, "start", <<box.name>>),
        first_box |-> <<box.name>>]
  ELSE [dependents |->
          DictSet(acc.dependents, box.adjacent,
                  Append(IF box.adjacent \in DOMAIN acc.dependents
                         THEN acc.dependents[box.adjacent] ELSE <<>>,
                         box.name)),
        first_box |-> acc.first_box]

RECURSIVE tree_loop(_, _, _)
tree_loop(bx, ord, acc) ==
  IF ord = <<>> THEN acc
  ELSE tree_loop(bx, Tail(ord), tree_step(acc, bx[Head(ord)]))

generate_tree(bx, ord) ==
  tree_loop(bx, ord, [dependents |-> NoObjects, first_box |-> <<>>])

----------------------------------------------------------------------------
(* adjust_dimensions *)

\* DEFAULT_CONSTANTS
DEFAULT_WALL_THICKNESS == 10
DEFAULT_FLOOR_THICKNESS == 10
DEFAULT_CEILING_THICKNESS == -1

DEFAULT_CONSTANTS ==
  << <<"wall_thickness", DEFAULT_WALL_THICKNESS>>,
     <<"floor_thickness", DEFAULT_FLOOR_THICKNESS>>,
     <<"ceiling_thickness", DEFAULT_CEILING_THICKNESS>> >>

\* add_default_constants: the loop over DEFAULT_CONSTANTS.items()
RECURSIVE add_default_constants(_, _, _)
add_default_constants(bx, ord, defaults) ==
  IF defaults = <<>> THEN [boxes |-> bx, order |-> ord]
  ELSE LET default_name == Head(defaults)[1]
           default_value == Head(defaults)[2]
       IN IF default_name \notin DOMAIN bx
          THEN add_default_constants(
                 DictSet(bx, default_name, DefaultConstant(default_name, default_value)),
                 Append(ord, default_name), Tail(defaults))
          ELSE add_default_constants(bx, ord, Tail(defaults))

\* the factor by which a hole is made thicker than the wall
HOLE_THICKNESS_FACTOR == 8

\* the body of the loop of adjust_dimensions for one object: the object as the
\* statements leave it, and the exception one of them raises ("" for none).
\* number + str raises TypeError; str * int is the repeated str.
adjust_box(box, wall_thickness, floor_thickness, ceiling_thickness) ==
  IF box.cls = "Box" /\ box.box_type = "room"
  THEN IF wall_thickness.str
       THEN [err |-> "TypeError", box |-> box]
       ELSE LET widened ==
                  [box EXCEPT !.dimensions[1] = @ + wall_thickness.n,
                              !.dimensions[2] = @ + wall_thickness.n]
            IN IF floor_thickness.str \/ ceiling_thickness.str
               THEN [err |-> "TypeError", box |-> widened]
               ELSE [err |-> "",
                     box |-> [widened EXCEPT !.dimensions[3] =
                                @ + floor_thickness.n + ceiling_thickness.n]]
  ELSE IF box.cls = "Hole"
  THEN IF wall_thickness.str
       THEN [err |-> "",
             box |-> [box EXCEPT !.dimensions[3] =
                        [str |-> TRUE, n |-> wall_thickness.n,
                         times |-> HOLE_THICKNESS_FACTOR]]]
       ELSE [err |-> "",
             box |-> [box EXCEPT !.dimensions[3] =
                        wall_thickness.n * HOLE_THICKNESS_FACTOR]]
  ELSE [err |-> "", box |-> box]

\* the loop of adjust_dimensions over boxes.values(); it stops at the first exception
RECURSIVE adjust_loop(_, _, _, _, _)
adjust_loop(bx, ord, wall_thickness, floor_thickness, ceiling_thickness) ==
  IF ord = <<>> THEN [err |-> "", boxes |-> bx]
  ELSE LET r == adjust_box(bx[Head(ord)], wall_thickness, floor_thickness, ceiling_thickness)
           after == [bx EXCEPT ![Head(ord)] = r.box]
       IN IF r.err # "" THEN [err |-> r.err, boxes |-> after]
          ELSE adjust_loop(after, Tail(ord), wall_thickness, floor_thickness,
                           ceiling_thickness)

\* adjust_dimensions: the objects and key order it leaves, and the exception it raises.
\* The final PREAMBLE0 % (...) formats each constant with %g, which raises TypeError on a str.
adjust_dimensions(bx, ord) ==
  LET withc == add_default_constants(bx, ord, DEFAULT_CONSTANTS)
      wall_thickness == withc.boxes["wall_thickness"].value
      floor_thickness == withc.boxes["floor_thickness"].value
      ceiling_thickness == withc.boxes["ceiling_thickness"].value
      r == adjust_loop(withc.boxes, withc.order, wall_thickness, floor_thickness,
                       ceiling_thickness)
  IN [err |-> IF \E default \in {"wall_thickness", "floor_thickness", "ceiling_thickness"} :
                      withc.boxes[default].cls # "Constant"
              THEN "AttributeError"
              ELSE IF r.err # "" THEN r.err
              ELSE IF wall_thickness.str \/ floor_thickness.str \/ ceiling_thickness.str
              THEN "TypeError" ELSE "",
      boxes |-> r.boxes, order |-> withc.order]

----------------------------------------------------------------------------
(* position_dependents: the arithmetic on one dependent Box *)

HIGH_DIRECTIONS == <<"right", "behind", "above">>
LOW_DIRECTIONS == <<"left", "front", "below">>
LOW_ALIGNMENTS == <<"left", "front", "bottom">>
HIGH_ALIGNMENTS == <<"right", "back", "top">>

AXES == 1..3

\* the directions with the low ones subtracting the anchor's dimension
abut_mirrored(dependent, box, index) ==
  IF dependent.direction = HIGH_DIRECTIONS[index]
  THEN box.position[index] + box.dimensions[index]
  ELSE IF dependent.direction = LOW_DIRECTIONS[index]
  THEN box.position[index] - box.dimensions[index]
  ELSE dependent.position[index]

\* the coordinate on axis index after the two loops over the directions
abut(dependent, box, index) ==
  IF dependent.direction = HIGH_DIRECTIONS[index]
  THEN box.position[index] + box.dimensions[index]
  ELSE IF dependent.direction = LOW_DIRECTIONS[index]
  THEN box.position[index] - dependent.dimensions[index]
  ELSE dependent.position[index]

\* the coordinate on axis index after the two loops over the alignments, which
\* run after the loops over the directions left it at current
align(dependent, box, index, current) ==
  IF HIGH_ALIGNMENTS[index] \in dependent.alignment
  THEN box.position[index] + box.dimensions[index]
         - dependent.dimensions[index] + dependent.offset.n
  ELSE IF LOW_ALIGNMENTS[index] \in dependent.alignment
  THEN box.position[index] + dependent.offset.n
  ELSE current

\* some loop over the directions assigns a coordinate
direction_applies(dependent) ==
  \E index \in AXES : dependent.direction \in {HIGH_DIRECTIONS[index], LOW_DIRECTIONS[index]}

\* some loop over the alignments assigns a coordinate
alignment_applies(dependent) ==
  \E index \in AXES :
    dependent.alignment \cap {HIGH_ALIGNMENTS[index], LOW_ALIGNMENTS[index]} # {}

\* The four loops on a dependent Box: the position they leave and the exception
\* they raise. Every assignment reads box.position first (AttributeError on an
\* object without the attribute); the alignments add dependent.offset (TypeError
\* when it is a str), after the directions have been assigned.
place(dependent, box) ==
  IF ~box.has_position /\ (direction_applies(dependent) \/ alignment_applies(dependent))
  THEN [err |-> "AttributeError", position |-> dependent.position]
  ELSE LET abutted == [index \in AXES |-> abut(dependent, box, index)]
       IN IF alignment_applies(dependent) /\ dependent.offset.str
          THEN [err |-> "TypeError", position |-> abutted]
          ELSE [err |-> "",
                position |-> [index \in AXES |->
                                align(dependent, box, index, abutted[index])]]

----------------------------------------------------------------------------
(* The emitter *)

\* %g on a number: six significant digits
RECURSIVE round_to(_, _)
round_to(v, unit) ==
  IF v < 1000000 * unit THEN ((v + unit \div 2) \div unit) * unit
  ELSE round_to(v, unit * 10)

format_g(v) == IF v < 0 THEN 0 - round_to(0 - v, 1) ELSE round_to(v, 1)

\* scad_string testing the direction "behind" for the back wall
scad_string_behind(self, parent) ==
  [preshift |-> <<format_g(IF self.direction = "right" THEN parent.dimensions[1] ELSE 0),
                  format_g(IF self.direction = "behind" THEN parent.dimensions[2] ELSE 0),
                  10>>,
   rot |-> <<90, 0, format_g(IF self.direction \in {"left", "right"} THEN 90 ELSE 0)>>,
   postshift |-> <<format_g(self.offset.n), format_g(self.height), -40>>,
   dimensions |-> self.dimensions,
   label |-> self.name]

\* scad_string shifting the hole by its own thickness
scad_string_thickness(self, parent) ==
  [preshift |-> <<format_g(IF self.direction = "right" THEN parent.dimensions[1] ELSE 0),
                  format_g(IF self.direction = "back" THEN parent.dimensions[2] ELSE 0),
                  10>>,
   rot |-> <<90, 0, format_g(IF self.direction \in {"left", "right"} THEN 90 ELSE 0)>>,
   postshift |-> <<format_g(self.offset.n), format_g(self.height),
                   0 - format_g(self.dimensions[3])>>,
   dimensions |-> self.dimensions,
   label |-> self.name]

\* Hole.scad_string: the arguments of the hole(...) statement
scad_string(self, parent) ==
  [preshift |-> <<format_g(IF self.direction = "right" THEN parent.dimensions[1] ELSE 0),
                  format_g(IF self.direction = "back" THEN parent.dimensions[2] ELSE 0),
                  10>>,
   rot |-> <<90, 0, format_g(IF self.direction \in {"left", "right"} THEN 90 ELSE 0)>>,
   postshift |-> <<format_g(self.offset.n), format_g(self.height), -40>>,
   dimensions |-> self.dimensions,
   label |-> self.name]

\* Box.write_scad: the box(...) statement written, and the hole statements returned
RECURSIVE hole_strings(_, _, _)
hole_strings(bx, self, holes) ==
  IF holes = <<>> THEN <<>>
  ELSE <<scad_string(bx[Head(holes)], self)>> \o hole_strings(bx, self, Tail(holes))

write_scad(bx, self) ==
  [written |-> [position |-> self.position, dimensions |-> self.dimensions,
                label |-> self.name],
   holes |-> hole_strings(bx, self, self.holes)]

\* the generator of make_scad_layout over boxes.values(): the box statements go to
\* the stream as they are produced, the hole statements are joined and written after
RECURSIVE write_boxes(_, _)
write_boxes(bx, ord) ==
  IF ord = <<>> THEN [boxes |-> <<>>, holes |-> <<>>]
  ELSE LET rest == write_boxes(bx, Tail(ord))
           box == bx[Head(ord)]
       IN IF box.cls = "Box"
          THEN [boxes |-> <<write_scad(bx, box).written>> \o rest.boxes,
                holes |-> write_scad(bx, box).holes \o rest.holes]
          ELSE rest

NoOutput == [boxes |-> <<>>, holes |-> <<>>]

----------------------------------------------------------------------------
(* The inputs *)

Row(type, name, adjacent, direction, alignment, offset, width, depth, height) ==
  [type |-> type, name |-> name, adjacent |-> adjacent, direction |-> direction,
   alignment |-> alignment, offset |-> offset, width |-> width, depth |-> depth,
   height |-> height]

\* Topology files: NumRows rooms and doors, each adjacent to "start", to one of
\* the names of the file or to a name that is not in the file; the last row may
\* itself be named "start"; the rooms of a file are all to the right of their
\* anchors, or all without a direction.
NamePool == <<"a", "b", "c", "d", "e", "f">>
MissingName == "zz"

TopologyRow(name, type, adjacent, direction) ==
  IF type = "room"
  THEN Row("room", name, adjacent, direction, {}, <<>>, 30, 20, <<25>>)
  ELSE Row("door", name, adjacent, "left", {}, <<>>, 8, 20, <<>>)

TopologyFiles ==
  {[i \in 1..NumRows |->
      TopologyRow(IF i = NumRows THEN last ELSE NamePool[i], types[i], adjacents[i],
                  direction)] :
     last \in {NamePool[NumRows], "start"},
     direction \in {"right", ""},
     types \in [1..NumRows -> {"room", "door"}],
     adjacents \in [1..NumRows ->
                      {NamePool[i] : i \in 1..NumRows} \cup {"start", MissingName}]}

\* Geometry files: the room Hall at the root; the room Study to its right, flush
\* with its back and top; a door in Hall or Study; and a room or shelf next to
\* Study whose direction, alignment and offset vary. The file may set one of the
\* thickness constants.
OffsetCells == {<<>>} \cup {<<5 * n>> : n \in 0..MaxOffset}

Directions == {"", "right", "behind", "above", "left", "front", "below"}

Alignments ==
  {{}, {"left"}, {"right"}, {"front"}, {"back"}, {"top"}, {"bottom"},
   {"left", "top"}, {"right", "left"}}

HoleDirections == {"left", "right", "front", "back", "behind"}

ConstantRows ==
  {<<>>,
   <<Row("constant", "wall_thickness", "", "", {}, <<>>, 20, 0, <<>>)>>,
   <<Row("constant", "floor_thickness", "", "", {}, <<>>, 12, 0, <<>>)>>}

GeometryFiles ==
  {constants \o
     << Row("room", "Hall", "start", "", {}, <<>>, 300, 200, <<250>>),
        Row("room", "Study", "Hall", "right", {"back", "top"}, <<>>, 120, 80, <<200>>),
        Row("door", "Door", door[1], door[2], {}, door[3], 90, 200,
            IF door[3] = <<>> THEN <<>> ELSE <<7>>),
        Row(nook[1], "Nook", "Study", nook[2], nook[3], nook[4], 60, 40, <<70>>) >> :
     constants \in ConstantRows,
     door \in {"Hall", "Study"} \X HoleDirections \X OffsetCells,
     nook \in {"room", "shelf"} \X Directions \X Alignments \X OffsetCells}

\* the rows the file of that name may hold
Files(name) == IF name = "topology.csv" THEN TopologyFiles ELSE GeometryFiles

----------------------------------------------------------------------------
(* make_scad_layout, statement by statement *)

\* boxes = read_layout(input_file_name, opacity)
ReadLayout ==
  /\ pc = "read_layout"
  /\ \E rs \in Files(input_file_name) :
       /\ rows' = rs
       /\ boxes' = read_layout(rs).boxes
       /\ order' = read_layout(rs).order
  /\ pc' = "generate_tree"
  /\ UNCHANGED <<input_file_name, dependents, first_box, stack, out, log>>

\* dependents, first_box = generate_tree(boxes)
GenerateTree ==
  /\ pc = "generate_tree"
  /\ dependents' = generate_tree(boxes, order).dependents
  /\ first_box' = generate_tree(boxes, order).first_box
  /\ pc' = "adjust_dimensions"
  /\ UNCHANGED <<input_file_name, rows, boxes, order, stack, out, log>>

\* sized_preamble = adjust_dimensions(boxes)
AdjustDimensions ==
  /\ pc = "adjust_dimensions"
  /\ LET r == adjust_dimensions(boxes, order)
     IN /\ boxes' = r.boxes
        /\ order' = r.order
        /\ pc' = IF r.err # "" THEN r.err ELSE "first_box"
  /\ UNCHANGED <<input_file_name, rows, dependents, first_box, stack, out, log>>

\* first_box.position = [0.0, 0.0, 0.0], and the call position_dependents(.., first_box, 1)
PositionFirstBox ==
  /\ pc = "first_box"
  /\ IF first_box = <<>>
     THEN /\ pc' = "AttributeError"
          /\ UNCHANGED <<boxes, stack, log>>
     ELSE /\ boxes' = [boxes EXCEPT ![first_box[1]].has_position = TRUE,
                                    ![first_box[1]].position = <<0, 0, 0>>]
          /\ stack' = <<[box |-> first_box[1], index |-> 1]>>
          /\ log' = Append(log, [op |-> "root", name |-> first_box[1], anchor |-> "start"])
          /\ pc' = "position_dependents"
  /\ UNCHANGED <<input_file_name, rows, order, dependents, first_box, out>>

\* the lookup with the sentinel "start" never taken for a record's name
dependents_of_records(deps, name) ==
  IF name \in DOMAIN deps /\ name # "start" THEN deps[name] ELSE <<>>

\* the names the innermost call of position_dependents loops over
dependents_of(deps, name) == IF name \in DOMAIN deps THEN deps[name] ELSE <<>>

\* the recursive call passing box again, not dependent
recurse_into_box(stk, dependent_name) ==
  IF Len(stk) >= RecursionLimit THEN [err |-> "RecursionError", stack |-> stk]
  ELSE [err |-> "", stack |-> <<[box |-> Head(stk).box, index |-> 1]>> \o stk]

\* the call position_dependents(boxes, dependents, dependent, level) that ends an iteration
recurse(stk, dependent_name) ==
  IF Len(stk) >= RecursionLimit THEN [err |-> "RecursionError", stack |-> stk]
  ELSE [err |-> "", stack |-> <<[box |-> dependent_name, index |-> 1]>> \o stk]

\* one iteration of the loop of the innermost call of position_dependents
PositionDependent ==
  /\ pc = "position_dependents"
  /\ stack # <<>>
  /\ Head(stack).index <= Len(dependents_of(dependents, Head(stack).box))
  /\ LET frame == Head(stack)
         box == boxes[frame.box]
         dependent_name == dependents_of(dependents, frame.box)[frame.index]
         advanced == <<[frame EXCEPT !.index = @ + 1]>> \o Tail(stack)
         call == recurse(advanced, dependent_name)
     IN IF dependent_name \notin DOMAIN boxes
        THEN /\ pc' = "KeyError"
             /\ log' = Append(log, [op |-> "raise", name |-> dependent_name,
                                    anchor |-> frame.box])
             /\ UNCHANGED <<boxes, stack>>
        ELSE LET dependent == boxes[dependent_name]
             IN IF dependent.cls = "Box"
                THEN LET placed == place(dependent, box)
                     IN /\ boxes' = [boxes EXCEPT ![dependent_name].position =
                                                     placed.position]
                        /\ IF placed.err # ""
                           THEN /\ pc' = placed.err
                                /\ log' = Append(log, [op |-> "raise",
                                             name |-> dependent_name, anchor |-> frame.box])
                                /\ UNCHANGED stack
                           ELSE /\ pc' = IF call.err # "" THEN call.err ELSE pc
                                /\ log' = Append(log, [op |-> "position",
                                             name |-> dependent_name, anchor |-> frame.box])
                                /\ stack' = call.stack
                ELSE IF dependent.cls = "Hole"
                THEN IF box.cls # "Box"
                     THEN /\ pc' = "AttributeError"
                          /\ log' = Append(log, [op |-> "raise",
                                       name |-> dependent_name, anchor |-> frame.box])
                          /\ UNCHANGED <<boxes, stack>>
                     ELSE /\ boxes' = [boxes EXCEPT ![frame.box].holes =
                                                       Append(@, dependent_name)]
                          /\ pc' = IF call.err # "" THEN call.err ELSE pc
                          /\ log' = Append(log, [op |-> "attach",
                                       name |-> dependent_name, anchor |-> frame.box])
                          /\ stack' = call.stack
                ELSE /\ pc' = IF call.err # "" THEN call.err ELSE pc
                     /\ stack' = call.stack
                     /\ UNCHANGED <<boxes, log>>
  /\ UNCHANGED <<input_file_name, rows, order, dependents, first_box, out>>

\* the innermost call of position_dependents has no more dependents: it returns
Return ==
  /\ pc = "position_dependents"
  /\ stack # <<>>
  /\ Head(stack).index > Len(dependents_of(dependents, Head(stack).box))
  /\ stack' = Tail(stack)
  /\ pc' = IF Tail(stack) = <<>> THEN "write" ELSE pc
  /\ UNCHANGED <<input_file_name, rows, boxes, order, dependents, first_box, out, log>>

\* the with block: the box statements, then the hole statements
WriteOutput ==
  /\ pc = "write"
  /\ out' = write_boxes(boxes, order)
  /\ pc' = "done"
  /\ UNCHANGED <<input_file_name, rows, boxes, order, dependents, first_box, stack, log>>

Next ==
  \/ ReadLayout
  \/ GenerateTree
  \/ AdjustDimensions
  \/ PositionFirstBox
  \/ PositionDependent
  \/ Return
  \/ WriteOutput

\* the state in which make_scad_layout(input_file_name, output) is entered
Start(name) ==
  /\ input_file_name = name
  /\ rows = <<>>
  /\ pc = "read_layout"
  /\ boxes = NoObjects
  /\ order = <<>>
  /\ dependents = NoObjects
  /\ first_box = <<>>
  /\ stack = <<>>
  /\ out = NoOutput
  /\ log = <<>>

Init == Start("topology.csv")

Spec == Init /\ [][Next]_vars

InitGeom == Start("geometry.csv")

SpecGeom == InitGeom /\ [][Next]_vars

----------------------------------------------------------------------------
(* What the claims speak of, in terms of the input rows and the history *)

RowNames == {rows[i].name : i \in DOMAIN rows}

\* the row the dict keeps for a name: the last one
RowOf(name) ==
  rows[CHOOSE i \in DOMAIN rows :
         /\ rows[i].name = name
         /\ \A j \in DOMAIN rows : rows[j].name = name => j <= i]

IsSpace(name) == name \in RowNames /\ RowOf(name).type \in BOX_TYPES
IsHole(name) == name \in RowNames /\ RowOf(name).type \in HOLE_TYPES

\* the number a cell spells
CellNumber(cell) == IF cell = <<>> THEN 0 ELSE cell[1]

\* the value of a thickness constant: the file's, or else the default
Thickness(name, default) ==
  IF name \in RowNames /\ RowOf(name).type = "constant" THEN RowOf(name).width ELSE default

InputDimensions(name) ==
  <<RowOf(name).width, RowOf(name).depth, CellNumber(RowOf(name).height)>>

AdjustDimensionsHasRun == pc \notin {"read_layout", "generate_tree", "adjust_dimensions"}

WalkCompleted == pc \in {"write", "done"}

\* the entries of the history about Space dependents taken up against a Space
SpaceVisits ==
  {k \in DOMAIN log : /\ log[k].op \in {"position", "raise"}
                      /\ IsSpace(log[k].name) /\ IsSpace(log[k].anchor)}

SpacePlacements == {k \in SpaceVisits : log[k].op = "position"}

----------------------------------------------------------------------------
(* C3 *)

AbutsOnAxis(D, A, index) ==
  /\ D.direction = HIGH_DIRECTIONS[index]
       => D.position[index] = A.position[index] + A.dimensions[index]
  /\ D.direction = LOW_DIRECTIONS[index]
       => D.position[index] = A.position[index] - D.dimensions[index]

\* C3 as stated: every Space dependent D resolved against a Space A abuts A on
\* the axis of D.direction: at A's far face for right/behind/above, at A's near
\* face minus D's own dimension for left/front/below.
C3_AsStated ==
  \A k \in SpacePlacements : \A index \in AXES :
    AbutsOnAxis(boxes[log[k].name], boxes[log[k].anchor], index)

\* C3 amended: the same, on every axis for which D.alignment holds no token.
C3_Abutment ==
  \A k \in SpacePlacements : \A index \in AXES :
    boxes[log[k].name].alignment \cap {LOW_ALIGNMENTS[index], HIGH_ALIGNMENTS[index]} = {}
      => AbutsOnAxis(boxes[log[k].name], boxes[log[k].anchor], index)

\* a Space has been resolved by its direction against an anchor that is not at
\* the origin, on an axis its alignment leaves alone
C3_Witness ==
  \E k \in SpacePlacements :
    /\ boxes[log[k].name].direction \in {"left", "behind"}
    /\ boxes[log[k].name].alignment = {"top"}
    /\ boxes[log[k].anchor].position[1] > 0
    /\ boxes[log[k].anchor].position[2] > 0

----------------------------------------------------------------------------
(* C4 *)

\* C4 as stated: every Space dependent D the resolver takes up against a Space A
\* is flush with A's high face on each axis whose high token (right/back/top) is
\* in D.alignment, and with A's low face on each axis that has only the low token
\* (left/front/bottom), shifted by the number in D's offset cell; whatever
\* D.direction is.
C4_Alignment ==
  \A k \in SpaceVisits : \A index \in AXES :
    LET D == boxes[log[k].name]
        A == boxes[log[k].anchor]
        shift == CellNumber(RowOf(log[k].name).offset)
    IN /\ HIGH_ALIGNMENTS[index] \in D.alignment
            => D.position[index] = A.position[index] + A.dimensions[index]
                                     - D.dimensions[index] + shift
       /\ (LOW_ALIGNMENTS[index] \in D.alignment
             /\ HIGH_ALIGNMENTS[index] \notin D.alignment)
            => D.position[index] = A.position[index] + shift

----------------------------------------------------------------------------
(* C5 *)

\* C5 as stated: once adjust_dimensions has run, a room's dimensions are the
\* input's plus wall_thickness, wall_thickness and floor_thickness +
\* ceiling_thickness (each the file's constant, or else 10, 10 and -1), and
\* every other Space has the dimensions of the input.
C5_Dimensions ==
  AdjustDimensionsHasRun =>
    \A name \in RowNames :
      IsSpace(name) =>
        boxes[name].dimensions =
          IF RowOf(name).type = "room"
          THEN <<InputDimensions(name)[1] + Thickness("wall_thickness", 10),
                 InputDimensions(name)[2] + Thickness("wall_thickness", 10),
                 InputDimensions(name)[3] + Thickness("floor_thickness", 10)
                                          + Thickness("ceiling_thickness", -1)>>
          ELSE InputDimensions(name)

----------------------------------------------------------------------------
(* C8 *)

\* C8 as stated: in every emitted hole statement the first translation vector
\* has x = the width of the hole's Space if the hole's direction is "right", else
\* 0, and y = the depth of that Space if the direction is "behind", else 0; the
\* rotation about z is 90 exactly for "left" and "right".
C8_AsStated ==
  pc = "done" =>
    \A k \in DOMAIN out.holes :
      LET H == boxes[out.holes[k].label]
          S == boxes[H.adjacent]
      IN /\ out.holes[k].preshift[1] = (IF H.direction = "right" THEN S.dimensions[1] ELSE 0)
         /\ out.holes[k].preshift[2] = (IF H.direction = "behind" THEN S.dimensions[2] ELSE 0)
         /\ out.holes[k].rot[3] = 90 <=> H.direction \in {"left", "right"}

\* C8 amended: the same with y = the depth of the Space if the direction is
\* "back" (0 for "behind"); the rotation vector is (90, 0, r) with r = 90 for
\* "left" and "right" and 0 otherwise.
C8_Preshift ==
  pc = "done" =>
    \A k \in DOMAIN out.holes :
      LET H == boxes[out.holes[k].label]
          S == boxes[H.adjacent]
      IN /\ out.holes[k].preshift[1] = (IF H.direction = "right" THEN S.dimensions[1] ELSE 0)
         /\ out.holes[k].preshift[2] = (IF H.direction = "back" THEN S.dimensions[2] ELSE 0)
         /\ out.holes[k].rot = <<90, 0, IF H.direction \in {"left", "right"} THEN 90 ELSE 0>>

\* a hole in the back wall of a Space has been emitted
C8_Witness ==
  /\ pc = "done"
  /\ \E k \in DOMAIN out.holes :
       /\ boxes[out.holes[k].label].direction = "back"
       /\ out.holes[k].preshift[2] > 0

----------------------------------------------------------------------------
(* C9 *)

\* C9 as stated: in every emitted hole statement the second translation vector
\* is (offset, height, -T), T the hole's third dimension after adjust_dimensions.
C9_AsStated ==
  pc = "done" =>
    \A k \in DOMAIN out.holes :
      LET H == boxes[out.holes[k].label]
      IN out.holes[k].postshift = <<H.offset.n, H.height, 0 - H.dimensions[3]>>

\* C9 amended: the second translation vector is (offset, height, -40), while the
\* hole's third dimension after adjust_dimensions is wall_thickness * 8.
C9_Postshift ==
  pc = "done" =>
    \A k \in DOMAIN out.holes :
      LET H == boxes[out.holes[k].label]
      IN /\ out.holes[k].postshift = <<H.offset.n, H.height, -40>>
         /\ H.dimensions[3] = 8 * Thickness("wall_thickness", 10)
         /\ out.holes[k].dimensions = H.dimensions

\* a hole with an offset and a height has been emitted
C9_Witness ==
  /\ pc = "done"
  /\ \E k \in DOMAIN out.holes :
       /\ out.holes[k].postshift[1] > 0
       /\ out.holes[k].postshift[2] > 0

----------------------------------------------------------------------------
(* The adjacency of the input *)

\* the root: the last row adjacent to "start" (generate_tree overwrites the others)
RootRows == {i \in DOMAIN rows : rows[i].adjacent = "start"
                                   /\ rows[i].type \in BOX_TYPES \cup HOLE_TYPES}
HasRoot == RootRows # {}
RootName == rows[CHOOSE i \in RootRows : \A j \in RootRows : j <= i].name

\* name hangs below the root: its chain of anchors leads to the root, and
\* not through an overwritten root
RECURSIVE HangsBelowRoot(_, _)
HangsBelowRoot(name, fuel) ==
  IF name = RootName THEN TRUE
  ELSE IF fuel = 0 \/ name \notin RowNames \/ RowOf(name).adjacent = "start" THEN FALSE
  ELSE HangsBelowRoot(RowOf(name).adjacent, fuel - 1)

Reachable(name) == HasRoot /\ name \in RowNames /\ HangsBelowRoot(name, Len(rows))

\* the anchor k levels up, "" past a name that is not in the file
RECURSIVE AnchorUp(_, _)
AnchorUp(name, k) ==
  IF k = 0 THEN name
  ELSE IF name \notin RowNames THEN ""
  ELSE AnchorUp(RowOf(name).adjacent, k - 1)

OwnAncestor(name) == \E k \in 1..Len(rows) : AnchorUp(name, k) = name

\* a cycle below the root: only a record named "start" closes one, the root
\* being its dependent
CycleReachable == "start" \in RowNames /\ Reachable("start")

MissingAnchor(name) == RowOf(name).adjacent \notin RowNames \cup {"start"}

Placements(name) ==
  {k \in DOMAIN log : log[k].name = name /\ log[k].op \in {"root", "position"}}

Visits(name) == {k \in DOMAIN log : log[k].name = name}

HoleLists(h) ==
  {n \in DOMAIN boxes : \E i \in DOMAIN boxes[n].holes : boxes[n].holes[i] = h}

Occurrences(h, n) == Cardinality({i \in DOMAIN boxes[n].holes : boxes[n].holes[i] = h})

----------------------------------------------------------------------------
(* C1 *)

PreOrder ==
  /\ \A name \in RowNames :
       IsSpace(name) /\ Reachable(name) =>
         /\ Cardinality(Placements(name)) <= 1
         /\ WalkCompleted => Cardinality(Placements(name)) = 1
  /\ \A k \in SpacePlacements :
       \E j \in 1..(k - 1) : log[j].name = log[k].anchor
                               /\ log[j].op \in {"root", "position"}

\* C1 as stated: during the walk every Space reachable from the root is
\* positioned at most once, exactly once when the walk has completed, and
\* after the Space it is a dependent of.
C1_AsStated == PreOrder

\* C1 amended: the same, for the inputs in which no record named "start" hangs
\* below the root.
C1_PreOrder == ~CycleReachable => PreOrder

\* a walk has completed that positioned a Space below a Space below the root
C1_Witness ==
  /\ WalkCompleted
  /\ \E k \in SpacePlacements :
       \E j \in SpacePlacements : j < k /\ log[j].name = log[k].anchor

----------------------------------------------------------------------------
(* C2 *)

\* C2 as stated: after the walk every Hole is in the holes list of the Space
\* named by its adjacent field, once, and in no other list; and no Hole ever
\* has a position.
C2_AsStated ==
  /\ WalkCompleted =>
       \A h \in RowNames :
         IsHole(h) => /\ IsSpace(RowOf(h).adjacent)
                      /\ HoleLists(h) = {RowOf(h).adjacent}
                      /\ Occurrences(h, RowOf(h).adjacent) = 1
  /\ \A h \in DOMAIN boxes : boxes[h].cls = "Hole" => ~boxes[h].has_position

\* C2 amended: after a walk that completed, a Hole whose adjacent field names a
\* Space that hangs below the root is in the holes list of that Space, once, and
\* in no other list; every other Hole is in no list; and the only Hole that is
\* ever given a position is a Hole that is the root.
C2_Holes ==
  /\ WalkCompleted =>
       \A h \in RowNames :
         IsHole(h) =>
           IF IsSpace(RowOf(h).adjacent) /\ Reachable(RowOf(h).adjacent)
           THEN /\ HoleLists(h) = {RowOf(h).adjacent}
                /\ Occurrences(h, RowOf(h).adjacent) = 1
           ELSE HoleLists(h) = {}
  /\ \A h \in DOMAIN boxes :
       boxes[h].cls = "Hole" /\ boxes[h].has_position => HasRoot /\ h = RootName

\* a walk has completed that attached one Hole and left another in no list
C2_Witness ==
  /\ WalkCompleted
  /\ \E h \in RowNames : IsHole(h) /\ HoleLists(h) # {}
  /\ \E h \in RowNames : IsHole(h) /\ HoleLists(h) = {}

----------------------------------------------------------------------------
(* C6 *)

\* C6 as stated: when some record is its own ancestor in the adjacency, the
\* walk never completes.
C6_AsStated == (\E name \in RowNames : OwnAncestor(name)) => ~WalkCompleted

\* C6 amended: when a record named "start" hangs below the root (the only cycle
\* the walk can enter), the walk never completes; no other input ends in a
\* RecursionError, and its calls nest no deeper than the number of rows.
C6_Recursion ==
  /\ CycleReachable => ~WalkCompleted
  /\ ~CycleReachable => pc # "RecursionError" /\ Len(stack) <= Len(rows)

\* the walk has entered the cycle and exhausted the recursion limit
C6_Witness == pc = "RecursionError" /\ CycleReachable

----------------------------------------------------------------------------
(* C7 *)

\* C7 as stated: when some record's adjacent field names a record that is not
\* in the input, the run does not complete.
C7_AsStated ==
  (\E name \in RowNames : MissingAnchor(name)) => pc \notin {"write", "done"}

\* C7 amended: no lookup ever fails; a record whose adjacent field names a record
\* that is not in the input is filed by generate_tree under that name, is never
\* visited by the walk, stays at (0,0,0) and in no holes list.
C7_Unresolved ==
  /\ pc # "KeyError"
  /\ \A name \in RowNames :
       MissingAnchor(name) =>
         /\ Visits(name) = {}
         /\ pc \notin {"read_layout", "generate_tree"} =>
              /\ RowOf(name).adjacent \in DOMAIN dependents
              /\ \E i \in DOMAIN dependents[RowOf(name).adjacent] :
                   dependents[RowOf(name).adjacent][i] = name
              /\ boxes[name].position = <<0, 0, 0>>
              /\ HoleLists(name) = {}

\* a run has written its output although a record names an anchor that is not
\* in the input
C7_Witness == pc = "done" /\ \E name \in RowNames : MissingAnchor(name)

----------------------------------------------------------------------------
(* C10 *)

Rooted == HasRoot /\ "start" \notin RowNames

\* C10: on an input with a root and no record named "start", the walk visits
\* each record at most once, so it takes no more iterations than there are rows,
\* nests no deeper than the number of rows, never exhausts the recursion limit,
\* and while it runs there is a call to continue or return from: it comes to an
\* end.
C10_Terminates ==
  Rooted => /\ \A name \in RowNames : Cardinality(Visits(name)) <= 1
            /\ Len(log) <= Len(rows)
            /\ Len(stack) <= Len(rows)
            /\ pc # "RecursionError"
            /\ pc = "position_dependents" => stack # <<>>

\* a walk over an input with a root, a cycle of other records and a missing
\* anchor has completed
C10_Witness ==
  /\ Rooted /\ WalkCompleted
  /\ \E name \in RowNames : OwnAncestor(name)
  /\ \E name \in RowNames : MissingAnchor(name)

====
